---- MODULE Spec2Model ----
(***************************************************************************)
(* jwave: the Helmholtz operator with PML (acoustics/operators.py) and the *)
(* grid / time-axis data model (geometry.py).                              *)
(*                                                                         *)
(* Array values are kept symbolically: a field is a record carrying its    *)
(* discretization, its domain and a term describing how its samples were   *)
(* computed.  Two fields are bit-identical exactly when their terms are    *)
(* equal.  The Python dictionaries used as parameter bundles live in a     *)
(* heap indexed by object identity, so that mutation in place is visible.  *)
(***************************************************************************)
EXTENDS Integers, Sequences, FiniteSets, TLC

VARIABLES
    u,        \* the field the caller currently holds
    medium,   \* the Medium the caller currently holds
    omega,    \* the angular frequency the caller currently uses
    heap,     \* the parameter bundle (dict) the caller holds, if any: <<>> or <<b>>
    origin,   \* for that bundle: the (u domain, medium, omega) of the call that created it,
              \* and whether a call with Field density has used it since
    last,     \* what the last operator call did and returned
    grid,     \* the kGrid the caller currently holds
    res       \* what the last geometry call returned

vars == <<u, medium, omega, heap, origin, last, grid, res>>
opVars == <<u, medium, omega, heap, origin, last>>
geomVars == <<grid, res>>

---------------------------------------------------------------------------
(* Bounds of the model *)

MaxOmega == 2      \* angular frequencies 1..MaxOmega
MaxDim == 2        \* grids of 1..MaxDim axes
MaxN == 5          \* 1..MaxN points per axis
MaxDx == 2         \* spacings 1..MaxDx
MaxC == 2          \* sound speeds 1..MaxC
MaxT == 2          \* times and time steps 1..MaxT

Omegas == 1..MaxOmega

\* Domains and sample contents are atoms: the operators never look inside
\* them, so two of each tell "the same" from "another".
Domains == {"d1", "d2"}

Contents == {"a", "b"}

---------------------------------------------------------------------------
(* Values *)

None == 0

NoField == [kind |-> "none"]

Scalar(v) == [kind |-> "scalar", v |-> v]

MkField(disc, d, p) == [kind |-> "field", disc |-> disc, domain |-> d, params |-> p]

\* issubclass(type(x), Field)
IsField(x) == x.kind = "field"

\* the exact constant 0. of the scalar-density branch
Zero == Scalar(0)

Fields == { MkField(disc, d, v) : disc \in {"OnGrid", "FourierSeries"},
                                  d \in Domains, v \in Contents }

\* a medium parameter: a scalar, or a Field on domain d
MediumParam(isfield, d) == IF isfield THEN MkField("FourierSeries", d, "m") ELSE Scalar(1)

\* the pml_size of the Medium example
pml_size == 15

Medium(c, rho, alpha) ==
    [sound_speed |-> c, density |-> rho, attenuation |-> alpha, pml_size |-> pml_size]

\* the media of the model: all parameters scalar, one of the three a Field
\* on a domain d, or all three Fields on d
FieldChoices == { <<FALSE, FALSE, FALSE>>, <<TRUE, FALSE, FALSE>>, <<FALSE, TRUE, FALSE>>,
                  <<FALSE, FALSE, TRUE>>, <<TRUE, TRUE, TRUE>> }

Mediums == { Medium(MediumParam(k[1], d), MediumParam(k[2], d), MediumParam(k[3], d)) :
                 k \in FieldChoices, d \in Domains }

---------------------------------------------------------------------------
(* The collaborators the operators call (jaxdf, .pml, .conversion), as     *)
(* uninterpreted terms over their arguments.                               *)

Term1(op, a) == [op |-> op, a |-> a]
Term2(op, a, b) == [op |-> op, a |-> a, b |-> b]

\* complex_pml_on_grid(medium, omega): the per-axis complex damping array
complex_pml_on_grid(m, w) == Term2("pml", m, w)

\* u.replace_params(p): the discretization and domain of u, the samples p
replace_params(f, p) == [f EXCEPT !.params = p]

\* gradient(f)._op_params: the transform setup, fixed by discretization and domain
gradient_op_params(f) == Term2("gradient_params", f.disc, f.domain)

\* gradient(f, params=p); gradient(f) is gradient(f, gradient(f)._op_params)
gradient(f, p) == Term2("gradient", f.params, p)

\* diag_jacobian(x, params=p)
diag_jacobian(x, p) == Term2("diag_jacobian", x, p)

sum_over_dims(x) == Term1("sum_over_dims", x)

Mul(a, b) == Term2("mul", a, b)
Div(a, b) == Term2("div", a, b)
Add(a, b) == Term2("add", a, b)
Sub(a, b) == Term2("sub", a, b)

\* the samples of a Field, the value of a scalar
ValueOf(x) == IF IsField(x) THEN Term1("samples", x.params) ELSE Scalar(x.v)

\* a Field parameter living on another domain than f
Mismatch(f, x) == IsField(x) /\ x.domain # f.domain

---------------------------------------------------------------------------
(* acoustics/operators.py *)

\* A call's outcome: status "ok" with the returned field and bundle, or an
\* exception raised by a collaborator.  heap is the heap after the call.
Outcome(status, out, pid, h, o, npml, ngrad, rho_u) ==
    [status |-> status, out |-> out, pid |-> pid, heap |-> h, origin |-> o,
     pmlCalls |-> npml, gradRhoCalls |-> ngrad, rho_u |-> rho_u]

\* laplacian_with_pml(u: OnGrid, ...).  strict: whether the collaborators'
\* arithmetic raises on operands of different domains (it is theirs to decide).
laplacian_with_pml_OnGrid(f, m, w, p, h, o, strict) ==
    LET pml_grid == complex_pml_on_grid(m, w)
        pml == replace_params(f, pml_grid)
        grad_u == gradient(f, gradient_op_params(f))
        mod_grad_u == Mul(grad_u, pml.params)
        mod_diag_jacobian == Mul(diag_jacobian(mod_grad_u, gradient_op_params(f)), pml.params)
        nabla_u == sum_over_dims(mod_diag_jacobian)
        rho0 == m.density
    IN  IF ~IsField(rho0)
        THEN Outcome("ok", replace_params(f, Sub(nabla_u, Zero)), None, h, o, 1, 0, Zero)
        ELSE LET grad_rho0 == gradient(rho0, gradient_op_params(rho0))
                 rho_u == Div(sum_over_dims(Mul(mod_grad_u, grad_rho0)), rho0.params)
             IN  IF Mismatch(f, rho0) /\ strict
                 THEN Outcome("raised", NoField, None, h, o, 1, 1, NoField)
                 ELSE Outcome("ok", replace_params(f, Sub(nabla_u, rho_u)), None, h, o, 1, 1, rho_u)

\* a params test that never sees the supplied bundle
ParamsAbsentAlways(p) == TRUE

\* params == None (lines 50 and 131)
ParamsAbsent(p) == p = None

\* a PML recomputed at the omega of the current call
PmlOfCurrentOmega(params, f, m, w) == replace_params(f, complex_pml_on_grid(m, w))

\* line 56: pml = params['pml_on_grid']
PmlOf(params, f, m, w) == params.pml_on_grid

\* a bundle that caches the gradient of u instead of the gradient's parameters
InitParamsCachingGradient(f, m, w) ==
    [pml_on_grid |-> replace_params(f, complex_pml_on_grid(m, w)),
     fft_u |-> gradient(f, gradient_op_params(f))]

\* a bundle whose density entry is filled in at creation, whatever the density
InitParamsEagerRho0(f, m, w) ==
    [pml_on_grid |-> replace_params(f, complex_pml_on_grid(m, w)),
     fft_u |-> gradient_op_params(f),
     fft_rho0 |-> gradient_op_params(f)]

\* the identity of a newly built dict: one no dict of the heap has
NewId(h) == Len(h) + 1

\* lines 50-54: the bundle built when params is absent
InitParams(f, m, w) ==
    [pml_on_grid |-> replace_params(f, complex_pml_on_grid(m, w)),
     fft_u |-> gradient_op_params(f)]

\* lines 69-70: params['fft_rho0'] = ... stored into the dict itself
WithRho0(b, rho0) ==
    IF "fft_rho0" \in DOMAIN b THEN b ELSE b @@ ("fft_rho0" :> gradient_op_params(rho0))

\* laplacian_with_pml(u: FourierSeries, ...).  p is None or the identity of
\* a bundle in the heap h.
laplacian_with_pml_FourierSeries(f, m, w, p, h, o, strict) ==
    LET rho0 == m.density
        fresh == ParamsAbsent(p)
        id == IF fresh THEN NewId(h) ELSE p
        h0 == IF fresh THEN Append(h, InitParams(f, m, w)) ELSE h
        o0 == IF fresh
              THEN Append(o, [domain |-> f.domain, medium |-> m, omega |-> w,
                              fieldRho |-> FALSE])
              ELSE o
        npml == IF fresh THEN 1 ELSE 0
        params == h0[id]
        pml == PmlOf(params, f, m, w)
        grad_u == gradient(f, params.fft_u)
        mod_grad_u == Mul(grad_u, pml.params)
        mod_diag_jacobian == Mul(diag_jacobian(mod_grad_u, params.fft_u), pml.params)
        nabla_u == sum_over_dims(mod_diag_jacobian)
    IN  IF ~IsField(rho0)
        THEN Outcome("ok", replace_params(f, Sub(nabla_u, Zero)), id, h0, o0, npml, 0, Zero)
        ELSE LET ngrad == IF "fft_rho0" \in DOMAIN params THEN 1 ELSE 2
                 h1 == [h0 EXCEPT ![id] = WithRho0(params, rho0)]
                 o1 == [o0 EXCEPT ![id].fieldRho = TRUE]
                 grad_rho0 == gradient(rho0, h1[id].fft_rho0)
                 rho_u == Div(sum_over_dims(Mul(mod_grad_u, grad_rho0)), rho0.params)
             IN  IF Mismatch(f, rho0) /\ strict
                 THEN Outcome("raised", NoField, None, h1, o1, npml, ngrad, NoField)
                 ELSE Outcome("ok", replace_params(f, Sub(nabla_u, rho_u)), id, h1, o1,
                              npml, ngrad, rho_u)

\* the dispatch of laplacian_with_pml on the type of u
laplacian_with_pml(f, m, w, p, h, o, strict) ==
    IF f.disc = "FourierSeries"
    THEN laplacian_with_pml_FourierSeries(f, m, w, p, h, o, strict)
    ELSE laplacian_with_pml_OnGrid(f, m, w, p, h, o, strict)

\* db2neper(x, 2.) composed over the attenuation
db2neper(x, y) == Term2("db2neper", x, y)

\* wavevector(u, medium, omega)
wavevector(f, m, w, strict) ==
    LET c == m.sound_speed
        alpha == db2neper(ValueOf(m.attenuation), 2)
        k_mod == Add(Term2("pow", Div(Scalar(w), ValueOf(c)), 2),
                     Div(Mul(Term2("2j_pow", Scalar(w), 3), alpha), ValueOf(c)))
        clash == Mismatch(f, c) \/ Mismatch(f, m.attenuation)
    IN  IF clash /\ strict
        THEN [status |-> "raised", out |-> NoField]
        ELSE [status |-> "ok", out |-> replace_params(f, Mul(f.params, k_mod))]

\* helmholtz(u: Field, ...)
helmholtz_Field(f, m, w, p, h, o, strict) ==
    LET L == laplacian_with_pml(f, m, w, None, h, o, strict)
        k == wavevector(f, m, w, strict)
    IN  IF L.status # "ok"
        THEN L
        ELSE IF k.status # "ok"
        THEN Outcome("raised", NoField, None, L.heap, L.origin, L.pmlCalls, L.gradRhoCalls, L.rho_u)
        ELSE Outcome("ok", replace_params(f, Add(L.out.params, k.out.params)), None,
                     L.heap, L.origin, L.pmlCalls, L.gradRhoCalls, L.rho_u)

\* helmholtz(u: FourierSeries, ...)
helmholtz_FourierSeries(f, m, w, p, h, o, strict) ==
    LET first == laplacian_with_pml(f, m, w, None, h, o, strict)
        made == ParamsAbsent(p)
        params == IF made THEN first.pid ELSE p
        h0 == IF made THEN first.heap ELSE h
        o0 == IF made THEN first.origin ELSE o
        n0 == IF made THEN first.pmlCalls ELSE 0
        g0 == IF made THEN first.gradRhoCalls ELSE 0
    IN  IF made /\ first.status # "ok"
        THEN first
        ELSE LET L == laplacian_with_pml(f, m, w, params, h0, o0, strict)
                 k == wavevector(f, m, w, strict)
             IN  IF L.status # "ok"
                 THEN [L EXCEPT !.pmlCalls = @ + n0, !.gradRhoCalls = @ + g0]
                 ELSE IF k.status # "ok"
                 THEN Outcome("raised", NoField, None, L.heap, L.origin,
                              n0 + L.pmlCalls, g0 + L.gradRhoCalls, L.rho_u)
                 ELSE Outcome("ok", replace_params(f, Add(L.out.params, k.out.params)),
                              params, L.heap, L.origin,
                              n0 + L.pmlCalls, g0 + L.gradRhoCalls, L.rho_u)

\* the dispatch of helmholtz on the type of u
helmholtz(f, m, w, p, h, o, strict) ==
    IF f.disc = "FourierSeries"
    THEN helmholtz_FourierSeries(f, m, w, p, h, o, strict)
    ELSE helmholtz_Field(f, m, w, p, h, o, strict)

---------------------------------------------------------------------------
(* geometry.py *)

Unset == [none |-> TRUE]

RECURSIVE SumSeq(_)
SumSeq(q) == IF q = <<>> THEN 0 ELSE Head(q) + SumSeq(Tail(q))

RECURSIVE ProdSeq(_)
ProdSeq(q) == IF Len(q) = 1 THEN Head(q) ELSE Head(q) * ProdSeq(Tail(q))

MinSeq(q) == CHOOSE x \in { q[i] : i \in DOMAIN q } : \A i \in DOMAIN q : x <= q[i]

MaxSeq(q) == CHOOSE x \in { q[i] : i \in DOMAIN q } : \A i \in DOMAIN q : x >= q[i]

\* an axis centred by the odd-length offset whatever the parity of n
spatial_axis_odd_offset(n, delta) ==
    [i \in 1..n |-> (i - 1) * delta - (delta * (n - 1)) \div 2]

\* jnp.arange(0, n) * delta - delta * n / 2          (n even)
\* jnp.arange(0, n) * delta - delta * (n - 1) / 2    (n odd)
\* with an integer delta both halves are whole numbers
spatial_axis(n, delta) ==
    IF n % 2 = 0
    THEN [i \in 1..n |-> (i - 1) * delta - (delta * n) \div 2]
    ELSE [i \in 1..n |-> (i - 1) * delta - (delta * (n - 1)) \div 2]

\* a wavenumber num/den (in units of 2*pi), multiplied by
\* exp(shift * 1j * k * dx / 2) and by the factor times
Wavenumber(num, den) == [num |-> num, den |-> den, shift |-> 0, dx |-> 0, times |-> 1]

\* jnp.fft.fftfreq(n, d) * 2 * jnp.pi
k_axis(n, d) ==
    [i \in 1..n |-> Wavenumber(IF i - 1 < (n + 1) \div 2 THEN i - 1 ELSE i - 1 - n, n * d)]

\* x[0] * jnp.exp(sign * 1j * x[0] * x[1] / 2)
Staggered(k, delta, sign) == [k EXCEPT !.shift = sign, !.dx = delta]

\* kGrid.make_grid(N, dx)
make_grid(N, dx) ==
    [kind |-> "kGrid",
     N |-> N,
     dx |-> dx,
     k_vec |-> [a \in DOMAIN N |-> k_axis(N[a], dx[a])],
     cell_area |-> ProdSeq(dx),
     k_staggered |-> Unset,
     k_with_kspaceop |-> Unset,
     space_axis |-> [a \in DOMAIN N |-> spatial_axis(N[a], dx[a])]]

\* kGrid.to_staggered
to_staggered(g) ==
    [g EXCEPT !.k_staggered =
        [backward |-> [a \in DOMAIN g.N |->
                          [i \in DOMAIN g.k_vec[a] |-> Staggered(g.k_vec[a][i], g.dx[a], 1)]],
         forward |-> [a \in DOMAIN g.N |->
                          [i \in DOMAIN g.k_vec[a] |-> Staggered(g.k_vec[a][i], g.dx[a], -1)]]]]

\* the index tuples of an array with one axis per vector of vecs
Indices(vecs) ==
    { ix \in [DOMAIN vecs -> 1..MaxN] : \A a \in DOMAIN vecs : ix[a] <= Len(vecs[a]) }

\* jnp.stack(jnp.meshgrid(*vecs, indexing="ij"))
Meshgrid(vecs) == [a \in DOMAIN vecs |-> [ix \in Indices(vecs) |-> vecs[a][ix[a]]]]

\* line 140: k_space_op = 1.0
k_space_op == 1

\* a correction factor that differs from one away from k = 0
TimesKspaceOpEnabled(k) == [k EXCEPT !.times = @ * (1 + k.num * k.num)]

\* lambda x: x * k_space_op
TimesKspaceOp(k) == [k EXCEPT !.times = @ * k_space_op]

\* jax.tree_util.tree_map(lambda x: x * k_space_op, K)
tree_map_kspace(K) == [a \in DOMAIN K |-> [ix \in DOMAIN K[a] |-> TimesKspaceOp(K[a][ix])]]

\* the truth value of self.k_staggered in assert self.k_staggered
Truthy(d) == d # Unset

\* kGrid.apply_kspace_operator(c_ref, dt)
apply_kspace_operator(g, c_ref, dt) ==
    IF ~Truthy(g.k_staggered)
    THEN [status |-> "AssertionError", grid |-> g]
    ELSE [status |-> "ok",
          grid |-> [g EXCEPT !.k_with_kspaceop =
                       [plain |-> tree_map_kspace(Meshgrid(g.k_vec)),
                        backward |-> tree_map_kspace(Meshgrid(g.k_staggered.backward)),
                        forward |-> tree_map_kspace(Meshgrid(g.k_staggered.forward))]]]

\* zip(self.N, self.dx)
zip(a, b) == [i \in 1..(IF Len(a) < Len(b) THEN Len(a) ELSE Len(b)) |-> <<a[i], b[i]>>]

\* the lambda of domain_size takes x and y; map over one iterable hands it
\* one argument per item
LambdaArity == 2

MapIterables == 1

\* kGrid.domain_size: list(map(lambda x, y: x * y, zip(self.N, self.dx)))
domain_size(g) ==
    LET items == zip(g.N, g.dx)
    IN  IF items = <<>>
        THEN [status |-> "ok", value |-> <<>>]
        ELSE IF MapIterables # LambdaArity
        THEN [status |-> "TypeError", value |-> <<>>]
        ELSE [status |-> "ok", value |-> [i \in DOMAIN items |-> items[i][1] * items[i][2]]]

\* the cfl default of from_kgrid, 0.3 = CflNum / CflDen
CflNum == 3

CflDen == 10

\* a sound speed map: a scalar or an array of samples
Samples(c) == IF c.kind = "scalar" THEN <<c.v>> ELSE c.samples

\* a time sqrt(sq) / den
Time(sq, den) == [sq |-> sq, den |-> den]

\* TimeAxis.from_kgrid(grid, medium, cfl=0.3, t_end)
from_kgrid(g, m, t_end) ==
    LET dt == [num |-> CflNum * MinSeq(g.dx), den |-> CflDen * MaxSeq(Samples(m.sound_speed))]
        span == [a \in DOMAIN g.space_axis |->
                    (g.space_axis[a][Len(g.space_axis[a])] - g.space_axis[a][1]) ^ 2]
    IN  [dt |-> dt,
         t_end |-> IF t_end = Unset
                   THEN Time(SumSeq(span), MinSeq(Samples(m.sound_speed)))
                   ELSE t_end]

---------------------------------------------------------------------------
(* The caller: it holds a field, a medium and a frequency, calls the       *)
(* operators, and may pass any bundle it was handed back in.               *)

NoBundle == [none |-> TRUE]

NoCall == [op |-> "none"]

\* which dict a call returned: none, the one it was handed, or a new one
Returned(p, r) ==
    IF r.pid = None THEN "none" ELSE IF r.pid = p THEN "supplied" ELSE "new"

\* what the caller sees of a call: the bundle it handed in as it was before
\* the call, and the outcome
Seen(op, p, h, r) ==
    [op |-> op, pin |-> p, before |-> IF p = None THEN NoBundle ELSE h[p],
     status |-> r.status, out |-> r.out, returned |-> Returned(p, r),
     pmlCalls |-> r.pmlCalls, gradRhoCalls |-> r.gradRhoCalls, rho_u |-> r.rho_u]

\* the caller keeps the bundle a call handed it and lets go of the one it
\* held; a call that returns no bundle leaves it with the one it held.
\* fn is the heap (or the origins) after the call, n the number of bundles
\* the caller held before it.
Kept(fn, n, r) == IF r.pid # None THEN <<fn[r.pid]>> ELSE SubSeq(fn, 1, n)

NewField(f) ==
    /\ f # u
    /\ u' = f
    /\ last' = NoCall
    /\ UNCHANGED <<medium, omega, heap, origin, geomVars>>

NewMedium(m) ==
    /\ m # medium
    /\ medium' = m
    /\ last' = NoCall
    /\ UNCHANGED <<u, omega, heap, origin, geomVars>>

NewOmega(w) ==
    /\ w # omega
    /\ omega' = w
    /\ last' = NoCall
    /\ UNCHANGED <<u, medium, heap, origin, geomVars>>

CallLaplacian(p, strict) ==
    /\ LET r == laplacian_with_pml(u, medium, omega, p, heap, origin, strict)
       IN  /\ heap' = Kept(r.heap, Len(heap), r)
           /\ origin' = Kept(r.origin, Len(heap), r)
           /\ last' = Seen("laplacian_with_pml", p, heap, r)
    /\ UNCHANGED <<u, medium, omega, geomVars>>

CallHelmholtz(p, strict) ==
    /\ LET r == helmholtz(u, medium, omega, p, heap, origin, strict)
       IN  /\ heap' = Kept(r.heap, Len(heap), r)
           /\ origin' = Kept(r.origin, Len(heap), r)
           /\ last' = Seen("helmholtz", p, heap, r)
    /\ UNCHANGED <<u, medium, omega, geomVars>>

NoGrid == [kind |-> "none"]

NoRes == [op |-> "none"]

Init ==
    /\ u \in Fields
    /\ medium \in Mediums
    /\ omega \in Omegas
    /\ heap = <<>>
    /\ origin = <<>>
    /\ last = NoCall
    /\ grid = NoGrid
    /\ res = NoRes

Next ==
    \/ \E f \in Fields : NewField(f)
    \/ \E m \in Mediums : NewMedium(m)
    \/ \E w \in Omegas : NewOmega(w)
    \/ \E p \in {None} \cup DOMAIN heap, strict \in BOOLEAN : CallLaplacian(p, strict)
    \/ \E p \in {None} \cup DOMAIN heap, strict \in BOOLEAN : CallHelmholtz(p, strict)

Spec == Init /\ [][Next]_vars

---------------------------------------------------------------------------
(* The caller of the geometry model: it holds one grid *)

Shapes == UNION { [1..d -> 1..MaxN] : d \in 1..MaxDim }

Spacings(d) == [1..d -> 1..MaxDx]

SoundSpeeds == { Scalar(v) : v \in 1..MaxC }
                   \cup { [kind |-> "array", samples |-> q] : q \in [1..2 -> 1..MaxC] }

\* (c_ref, dt) pairs for apply_kspace_operator: the smallest and the largest
KspaceArgs == { <<1, 1>>, <<MaxC, MaxT>> }

TEnds == { Unset } \cup { Time(t * t, 1) : t \in 1..MaxT }

HasGrid == grid.kind = "kGrid"

\* the caller builds its grid once: a kGrid is a value, and a second
\* make_grid would start the same behaviours over
MakeGrid(N, dx) ==
    /\ grid = NoGrid
    /\ grid' = make_grid(N, dx)
    /\ res' = NoRes
    /\ UNCHANGED opVars

ToStaggered ==
    /\ HasGrid
    /\ grid' = to_staggered(grid)
    /\ res' = [op |-> "to_staggered", before |-> grid]
    /\ UNCHANGED opVars

ApplyKspaceOperator(c_ref, dt) ==
    /\ HasGrid
    /\ LET r == apply_kspace_operator(grid, c_ref, dt)
       IN  /\ grid' = r.grid
           /\ res' = [op |-> "apply_kspace_operator", status |-> r.status,
                      before |-> [grid EXCEPT !.k_with_kspaceop = Unset]]
    /\ UNCHANGED opVars

DomainSize ==
    /\ HasGrid
    /\ res' = [op |-> "domain_size"] @@ domain_size(grid)
    /\ UNCHANGED <<grid, opVars>>

FromKgrid(c, t_end) ==
    /\ HasGrid
    /\ res' = [op |-> "from_kgrid", sound_speed |-> c, t_end |-> t_end,
               value |-> from_kgrid(grid, Medium(c, Scalar(1), Scalar(1)), t_end)]
    /\ UNCHANGED <<grid, opVars>>

GeomInit ==
    /\ u = MkField("FourierSeries", "d1", "a")
    /\ medium = Medium(Scalar(1), Scalar(1), Scalar(1))
    /\ omega = 1
    /\ heap = <<>>
    /\ origin = <<>>
    /\ last = NoCall
    /\ grid = NoGrid
    /\ res = NoRes

\* the grid and its wavenumber vectors
GridNext ==
    \/ \E N \in Shapes : \E dx \in Spacings(Len(N)) : MakeGrid(N, dx)
    \/ ToStaggered
    \/ \E a \in KspaceArgs : ApplyKspaceOperator(a[1], a[2])
    \/ DomainSize

GridSpec == GeomInit /\ [][GridNext]_vars

\* the time axis of a grid and a medium
TimeNext ==
    \/ \E N \in Shapes : \E dx \in Spacings(Len(N)) : MakeGrid(N, dx)
    \/ \E c \in SoundSpeeds, t_end \in TEnds : FromKgrid(c, t_end)

TimeSpec == GeomInit /\ [][TimeNext]_vars

---------------------------------------------------------------------------
(* Properties of the operators *)

OperatorCalled == last.op \in {"laplacian_with_pml", "helmholtz"}

OnFourierSeries == OperatorCalled /\ u.disc = "FourierSeries"

\* the last call was handed a bundle
Supplied == OnFourierSeries /\ last.pin # None

\* the (u domain, medium, omega) at which bundle id was created
CreatedHere(id) ==
    /\ origin[id].domain = u.domain
    /\ origin[id].medium = medium
    /\ origin[id].omega = omega

\* helmholtz(u, medium, omega) with params absent, on a heap of its own
Uncached == helmholtz(u, medium, omega, None, <<>>, <<>>, FALSE)

\* C1: a helmholtz call on a FourierSeries field that is handed a bundle
\* created at the same (u domain, medium, omega), whatever calls the bundle
\* was threaded through since, returns exactly the field that helmholtz
\* returns with params absent; for scalar and for Field density.
C1_CachedEqualsUncached ==
    (Supplied /\ last.op = "helmholtz" /\ last.status = "ok" /\ CreatedHere(last.pin))
        => last.out = Uncached.out

C1_Witness ==
    /\ Supplied /\ last.op = "helmholtz" /\ last.status = "ok"
    /\ CreatedHere(last.pin)
    /\ IsField(medium.density)
    /\ last.out = Uncached.out

\* C2: after a call with a supplied bundle, the caller's bundle has the
\* keys and values it had before the call.
C2_BundleNotMutated ==
    (Supplied /\ last.returned # "new") => heap[last.pin] = last.before

\* a Field parameter of the medium is sampled on another domain than u
DomainMismatch ==
    \/ Mismatch(u, medium.sound_speed)
    \/ Mismatch(u, medium.density)
    \/ Mismatch(u, medium.attenuation)

\* C3: a call with a Field medium parameter on another domain than u fails
\* at entry (before the PML is computed) and returns no field and no bundle.
C3_MismatchFailsAtEntry ==
    (OperatorCalled /\ DomainMismatch)
        => /\ last.status # "ok"
           /\ last.pmlCalls = 0
           /\ last.out = NoField
           /\ last.returned = "none"

\* the term of the Laplacian in the field a call returned
LaplacianTerm ==
    IF last.op = "helmholtz" THEN last.out.params.a ELSE last.out.params

\* the term of the wavevector in the field helmholtz returned
WavevectorTerm == last.out.params.b

\* the damping array the Laplacian term was multiplied by
PmlUsed == LaplacianTerm.a.a.b

HasRho0(b) == "fft_rho0" \in DOMAIN b

\* C6: with a scalar density no gradient of the density is taken, the
\* density term is the constant zero and the result is nabla_u - 0 (OnGrid
\* and FourierSeries); the call adds no 'fft_rho0' entry; and a bundle
\* created with scalar density and used with scalar density only never has one.
C6_ScalarDensityNoGradient ==
    /\ (OperatorCalled /\ ~IsField(medium.density))
         => /\ last.gradRhoCalls = 0
            /\ last.rho_u = Zero
            /\ last.status = "ok"
                 => /\ LaplacianTerm.op = "sub"
                    /\ LaplacianTerm.b = Zero
                    /\ last.returned # "none"
                         => (HasRho0(heap[1]) <=> (Supplied /\ HasRho0(last.before)))
    /\ \A id \in DOMAIN heap :
         (~IsField(origin[id].medium.density) /\ ~origin[id].fieldRho)
             => ~HasRho0(heap[id])

C6_Witness ==
    /\ Supplied /\ ~IsField(medium.density) /\ last.status = "ok"
    /\ ~IsField(origin[last.pin].medium.density)
    /\ ~origin[last.pin].fieldRho
    /\ last.returned = "supplied"
    /\ ~HasRho0(heap[last.pin])
    /\ last.rho_u = Zero

\* the entries a bundle created at origin o holds
CreatedPml(o) == MkField("FourierSeries", o.domain, complex_pml_on_grid(o.medium, o.omega))

CreatedFftU(o) == Term2("gradient_params", "FourierSeries", o.domain)

\* C8: helmholtz on a FourierSeries field computes the PML exactly once
\* when params is absent and never when a bundle is supplied; with a
\* supplied bundle it returns that bundle; and the 'pml_on_grid' and 'fft_u'
\* entries of a bundle stay what they were when it was created.
C8_BundleComputedOnce ==
    /\ (OnFourierSeries /\ last.op = "helmholtz" /\ last.pin = None)
         => last.pmlCalls = 1
    /\ (Supplied /\ last.op = "helmholtz")
         => /\ last.pmlCalls = 0
            /\ last.status = "ok" <=> last.returned = "supplied"
            /\ last.returned # "new"
            /\ heap[last.pin].pml_on_grid = last.before.pml_on_grid
            /\ heap[last.pin].fft_u = last.before.fft_u
    /\ \A id \in DOMAIN heap :
         /\ heap[id].pml_on_grid = CreatedPml(origin[id])
         /\ heap[id].fft_u = CreatedFftU(origin[id])

C8_Witness ==
    /\ Supplied /\ last.op = "helmholtz" /\ last.status = "ok"
    /\ last.pmlCalls = 0
    /\ last.returned = "supplied"
    /\ ~CreatedHere(last.pin)

\* C10: with a supplied bundle the Laplacian term is damped by the PML of
\* the medium and omega at which the bundle was created, not by those of the
\* current call; the wavevector term of helmholtz follows the current omega.
C10_StalePml ==
    (Supplied /\ last.status = "ok")
        => /\ PmlUsed = complex_pml_on_grid(origin[last.pin].medium, origin[last.pin].omega)
           /\ last.op = "helmholtz"
                => WavevectorTerm = wavevector(u, medium, omega, FALSE).out.params

C10_Witness ==
    /\ Supplied /\ last.status = "ok" /\ last.op = "helmholtz"
    /\ origin[last.pin].omega # omega
    /\ PmlUsed # complex_pml_on_grid(medium, omega)
    /\ PmlUsed = complex_pml_on_grid(origin[last.pin].medium, origin[last.pin].omega)

---------------------------------------------------------------------------
(* Properties of the geometry model *)

\* the squared diagonal of the domain: sum_i (N_i * dx_i)^2
DiagonalSq(g) == SumSeq([a \in DOMAIN g.N |-> (g.N[a] * g.dx[a]) ^ 2])

\* C4: without t_end, from_kgrid returns t_end = sqrt(sum_i (N_i*dx_i)^2)
\* divided by the minimum sound speed; a given t_end is returned unchanged.
C4_TEndIsDiagonalOverMinSpeed ==
    res.op = "from_kgrid"
        => res.value.t_end =
               IF res.t_end = Unset
               THEN Time(DiagonalSq(grid), MinSeq(Samples(res.sound_speed)))
               ELSE res.t_end

\* C5: the spatial axis of an axis of n points and spacing dx has n entries,
\* entry i being i*dx - dx*n/2 for even n and i*dx - dx*(n-1)/2 for odd n
\* (stated doubled, to stay in the integers); n=4, dx=1 gives [-2,-1,0,1]
\* and n=5, dx=1 gives [-2,-1,0,1,2].
C5_SpatialAxisCentred ==
    grid.kind = "kGrid"
        => \A a \in DOMAIN grid.N :
             LET n == grid.N[a]
                 d == grid.dx[a]
                 x == grid.space_axis[a]
             IN  /\ Len(x) = n
                 /\ \A i \in 0..(n - 1) :
                      2 * x[i + 1] = IF n % 2 = 0 THEN 2 * i * d - d * n
                                                  ELSE 2 * i * d - d * (n - 1)
                 /\ (n = 4 /\ d = 1) => x = <<-2, -1, 0, 1>>
                 /\ (n = 5 /\ d = 1) => x = <<-2, -1, 0, 1, 2>>

C5_Witness ==
    /\ grid.kind = "kGrid"
    /\ grid.N = <<4, 5>>
    /\ grid.dx = <<1, 1>>
    /\ grid.space_axis = << <<-2, -1, 0, 1>>, <<-2, -1, 0, 1, 2>> >>

\* C7: domain_size returns, without raising, the list of the lengths of the
\* grid sides, entry i being N[i]*dx[i].
C7_DomainSizeIsSideLengths ==
    res.op = "domain_size"
        => /\ res.status = "ok"
           /\ res.value = [i \in DOMAIN grid.N |-> grid.N[i] * grid.dx[i]]

====
